---- MODULE Spec2Model ----
(***************************************************************************)
(* A model of monitor.py of arise-opportunity-monitor: one invocation of   *)
(* check_for_changes logs in, fetches the reference page, extracts the     *)
(* opportunity state, compares it with the record kept in                  *)
(* previous_state.txt, notifies and saves.                                 *)
(*                                                                         *)
(* Text.  A Python string is modelled as a sequence of tokens, each token  *)
(* a chunk of the string that the program never looks inside: a name       *)
(* letter, the delimiters "|" and ",", the colon, a blank, a kind word, a  *)
(* digest.  Cat(t) is the string itself.  hashlib.md5(..).hexdigest() is   *)
(* modelled as a collision-free function of the hashed string whose value  *)
(* is one token holding no delimiter.                                      *)
(***************************************************************************)
EXTENDS Naturals, Sequences, FiniteSets, TLC

\* ------------------------------------------------------------------ bounds
\* the longest list of data rows of a table of a page
MaxRows == 2

\* ------------------------------------------------------------------ text
BAR == "|"
COMMA == ","
COLON == ":"
BLANK == " "
NO_DATA == "NO_DATA"
OPPORTUNITIES_AVAILABLE == "OPPORTUNITIES_AVAILABLE"
\* the text of an element that shows the sentinel phrase
NoDataText == <<"No Data">>
LoadingText == <<"Loading">>
\* the fallback of line 233 / 635
Placeholder == <<"New opportunities available - check Arise portal for details">>

RECURSIVE Cat(_)
Cat(t) == IF t = <<>> THEN "" ELSE Head(t) \o Cat(Tail(t))

RECURSIVE Join(_, _)
\* sep.join(parts): parts is a sequence of texts
Join(parts, sep) ==
    IF parts = <<>> THEN <<>>
    ELSE IF Len(parts) = 1 THEN parts[1]
    ELSE parts[1] \o <<sep>> \o Join(Tail(parts), sep)

RECURSIVE LStrip(_)
LStrip(t) == IF t # <<>> /\ Head(t) = BLANK THEN LStrip(Tail(t)) ELSE t

RECURSIVE RStrip(_)
RStrip(t) ==
    IF t # <<>> /\ t[Len(t)] = BLANK THEN RStrip(SubSeq(t, 1, Len(t) - 1)) ELSE t

\* str.strip()
Strip(t) == RStrip(LStrip(t))

\* the index of the first sep in t, 0 when there is none
FirstIndex(t, sep) ==
    IF \E i \in 1..Len(t) : t[i] = sep
    THEN CHOOSE i \in 1..Len(t) : t[i] = sep /\ \A j \in 1..(i - 1) : t[j] # sep
    ELSE 0

RECURSIVE SplitMax(_, _, _)
\* str.split(sep, maxsplit): at most maxsplit cuts, from the left
SplitMax(t, sep, maxsplit) ==
    LET i == FirstIndex(t, sep) IN
    IF maxsplit = 0 \/ i = 0 THEN <<t>>
    ELSE <<SubSeq(t, 1, i - 1)>> \o SplitMax(SubSeq(t, i + 1, Len(t)), sep, maxsplit - 1)

\* hashlib.md5(s.encode('utf-8')).hexdigest(), one token
Md5Hex(t) == "md5(" \o Cat(t) \o ")"

\* ------------------------------------------------------------------ page
(* A parsed document, as far as extract_opportunities reads it:             *)
(*   widget            one of the five locator methods finds a div          *)
(*   pageNoData        'No Data' occurs in the text of the whole page       *)
(*   pageOppWord       'opportunity' or 'announcement' occurs in that text  *)
(*   emptyTableScript  a script holds sEmptyTable, 'No Data', 'opportunity' *)
(*   text              the widget's text outside its tables, in tokens      *)
(*   alertH4           that text sits in an h4 of class alert               *)
(*   tables            the widget's tables; a table is the sequence of its  *)
(*                     tr rows, a row the sequence of its cells, a cell     *)
(*                     [tag, text] with text what get_text(strip=True) gives*)
Cell(tag, text) == [tag |-> tag, text |-> text]
HeaderRow == <<Cell("th", <<"Opportunity">>), Cell("th", <<"Download">>), Cell("th", <<"File Name">>)>>
\* a data row: name, download link, file name
DataRow(name) == <<Cell("td", name), Cell("td", <<"Download">>), Cell("td", <<"file.pdf">>)>>

\* the names a first cell may show (stripped text; the empty text and the
\* sentinel included, which extract_opportunity_details skips)
Names == {<<"A">>, <<"B">>, <<"A", COMMA, "B">>, <<"A", BAR, "B">>}
FirstCells == Names \cup {<<>>, NoDataText}

RECURSIVE SeqsUpTo(_, _)
\* the sequences over S of length at most n
SeqsUpTo(S, n) ==
    IF n = 0 THEN {<<>>}
    ELSE LET shorter == SeqsUpTo(S, n - 1)
         IN shorter \cup {Append(q, x) : q \in {r \in shorter : Len(r) = n - 1}, x \in S}

RowLists == SeqsUpTo({DataRow(c) : c \in FirstCells}, MaxRows)
\* a table of three rows, one of whose names contains the separator of
\* line 715, in two orders
CommaRows ==
    {<<DataRow(<<"A">>), DataRow(<<"B">>), DataRow(<<"A", COMMA, "B">>)>>,
     <<DataRow(<<"A", COMMA, "B">>), DataRow(<<"A">>), DataRow(<<"B">>)>>}
TableLists == {<<>>} \cup {<<(<<HeaderRow>> \o rows)>> : rows \in RowLists \cup CommaRows}
                     \cup {<<(<<HeaderRow, DataRow(<<"A">>)>>), (<<HeaderRow, DataRow(<<"B">>)>>)>>}
WidgetTexts == {<<>>, <<BLANK>>, NoDataText, LoadingText, <<"Some content here">>}

Page(widget, pageNoData, pageOppWord, script, text, h4, tables) ==
    [widget |-> widget, pageNoData |-> pageNoData, pageOppWord |-> pageOppWord,
     emptyTableScript |-> script, text |-> text, alertH4 |-> h4, tables |-> tables]

Pages ==
    {Page(FALSE, nd, ow, FALSE, <<>>, FALSE, <<>>) : nd \in BOOLEAN, ow \in BOOLEAN}
    \cup {Page(TRUE, FALSE, TRUE, FALSE, t, FALSE, tl) : t \in WidgetTexts, tl \in TableLists}
    \cup {Page(TRUE, TRUE, TRUE, FALSE, NoDataText, TRUE, <<>>),
          Page(TRUE, TRUE, TRUE, TRUE, <<>>, FALSE, <<>>),
          Page(TRUE, TRUE, TRUE, TRUE, <<"Some content here">>, FALSE, <<>>)}

RECURSIVE Flatten(_)
\* the concatenation of a sequence of sequences
Flatten(ss) == IF ss = <<>> THEN <<>> ELSE Head(ss) \o Flatten(Tail(ss))

\* 'phrase' in text, a phrase being one token
Contains(text, phrase) == \E i \in 1..Len(text) : text[i] = phrase

RowText(row) == Flatten([i \in 1..Len(row) |-> row[i].text])
TableText(table) == Flatten([i \in 1..Len(table) |-> RowText(table[i])])
\* opportunity_widget.get_text()
WidgetText(page) ==
    page.text \o Flatten([i \in 1..Len(page.tables) |-> TableText(page.tables[i])])

\* row.find_all('td')
TdCells(row) == SelectSeq(row, LAMBDA c : c.tag = "td")

\* the rows after the first of a table
DataRows(table) == IF table = <<>> THEN <<>> ELSE Tail(table)

RECURSIVE RowNames(_)
\* the names extract_opportunity_details takes from a list of rows
RowNames(rows) ==
    IF rows = <<>> THEN <<>>
    ELSE LET cells == TdCells(Head(rows))
             rest == RowNames(Tail(rows))
         IN IF Len(cells) >= 1 /\ cells[1].text # <<>> /\ cells[1].text # NoDataText
            THEN <<cells[1].text>> \o rest
            ELSE rest

extract_opportunity_details(page) ==
    Flatten([i \in 1..Len(page.tables) |-> RowNames(DataRows(page.tables[i]))])

Result(opportunities, has) == [opportunities |-> opportunities, has |-> has]

\* lines 213-226: some table has a row after the first with a non-empty cell
HasTableData(page) ==
    \E i \in 1..Len(page.tables) :
        /\ Len(page.tables[i]) > 1
        /\ \E r \in 2..Len(page.tables[i]) :
               \E c \in 1..Len(page.tables[i][r]) : page.tables[i][r][c].text # <<>>

\* a slip in lines 182-205: the widget's text is not searched, only its alert
\* h4 and the DataTables script
NoDataFoundAlertOnly(page) ==
    \/ page.alertH4 /\ Contains(page.text, "No Data")
    \/ page.emptyTableScript

\* lines 182-205
NoDataFound(page) ==
    \/ Contains(WidgetText(page), "No Data")
    \/ page.alertH4 /\ Contains(page.text, "No Data")
    \/ page.emptyTableScript

\* a slip in lines 152-161: without a widget, a page that does not say
\* 'No Data' is taken to show opportunities
extract_opportunitiesWidgetless(page) ==
    IF ~page.widget
    THEN IF page.pageNoData /\ page.pageOppWord
         THEN Result(<<>>, FALSE)
         ELSE Result(<<Placeholder>>, TRUE)
    ELSE IF NoDataFound(page) THEN Result(<<>>, FALSE)
    ELSE IF HasTableData(page)
            \/ (Strip(WidgetText(page)) # <<>> /\ ~Contains(WidgetText(page), "Loading"))
         THEN LET opportunities == extract_opportunity_details(page)
              IN Result(IF opportunities = <<>> THEN <<Placeholder>> ELSE opportunities, TRUE)
         ELSE Result(<<>>, FALSE)

\* a slip in lines 231-235: no placeholder when no name was extracted
extract_opportunitiesBare(page) ==
    IF ~page.widget
    THEN Result(<<>>, FALSE)
    ELSE IF NoDataFound(page) THEN Result(<<>>, FALSE)
    ELSE IF HasTableData(page)
            \/ (Strip(WidgetText(page)) # <<>> /\ ~Contains(WidgetText(page), "Loading"))
         THEN Result(extract_opportunity_details(page), TRUE)
         ELSE Result(<<>>, FALSE)

\* lines 90-241
extract_opportunities(page) ==
    IF ~page.widget
    THEN IF page.pageNoData /\ page.pageOppWord
         THEN Result(<<>>, FALSE)
         ELSE Result(<<>>, FALSE)
    ELSE IF NoDataFound(page) THEN Result(<<>>, FALSE)
    ELSE IF HasTableData(page)
            \/ (Strip(WidgetText(page)) # <<>> /\ ~Contains(WidgetText(page), "Loading"))
         THEN LET opportunities == extract_opportunity_details(page)
              IN Result(IF opportunities = <<>> THEN <<Placeholder>> ELSE opportunities, TRUE)
         ELSE Result(<<>>, FALSE)


\* ------------------------------------------------------------------ login
(* What the portal answers during handle_oauth_login, request by request:  *)
(*   initial  the GET of line 300: "raise", "oauth" (redirected to the      *)
(*            OAuth page) or "other"                                        *)
(*   form     the OAuth page holds a form                                   *)
(*   post     the POST of line 334: "raise", "redirect" (302/303 with a     *)
(*            Location) or "fail"                                           *)
(*   final    the GET of line 348: a response, or Raise                     *)
(*   authz    what handle_oauth_authorization returns or raises             *)
(* A response is [kind, status_code, url]; of the url only what the code    *)
(* tests is kept: "portal" (on link.arise.com, no 'login' in it), "login",  *)
(* "authorize" (holds connect/authorize).                                   *)
Response(status_code, url) == [kind |-> "response", status_code |-> status_code, url |-> url]
Raise == [kind |-> "raise", status_code |-> 0, url |-> ""]
None == [kind |-> "none", status_code |-> 0, url |-> ""]

Net(initial, form, post, final, authz) ==
    [initial |-> initial, form |-> form, post |-> post, final |-> final, authz |-> authz]

LoginResponses == {Response(200, "portal"), Response(200, "login"), Response(500, "portal")}

Nets ==
    {Net("raise", FALSE, "fail", None, None), Net("other", FALSE, "fail", None, None),
     Net("oauth", FALSE, "fail", None, None)}
    \cup {Net("oauth", TRUE, post, None, None) : post \in {"raise", "fail"}}
    \cup {Net("oauth", TRUE, "redirect", final, None) : final \in LoginResponses \cup {Raise}}
    \cup {Net("oauth", TRUE, "redirect", Response(200, "authorize"), authz) :
              authz \in LoginResponses \cup {Raise, None}}

handle_oauth_login(net) ==
    IF net.initial = "raise" THEN Raise
    ELSE IF net.initial # "oauth" THEN None
    ELSE IF ~net.form THEN None
    ELSE IF net.post = "raise" THEN Raise
    ELSE IF net.post # "redirect" THEN None
    ELSE IF net.final.kind = "raise" THEN Raise
    ELSE IF net.final.url = "authorize" THEN net.authz
    ELSE net.final

\* what handle_oauth_login_selenium returns: "raise", "none" (None, None),
\* "portal" or "login" (a session and the url reached)
SeleniumLogins == {"raise", "none", "portal", "login"}

\* lines 570-596: login_successful, or "raise" when the exception of a
\* request of handle_oauth_login leaves check_for_changes
LoginOutcome(net, selenium_available, selenium_login) ==
    LET oauth_result == handle_oauth_login(net)
        by_requests == /\ oauth_result.kind = "response"
                       /\ oauth_result.status_code = 200
                       /\ oauth_result.url = "portal"
    IN IF oauth_result.kind = "raise" THEN "raise"
       ELSE IF by_requests THEN "ok"
       ELSE IF selenium_available /\ selenium_login = "portal" THEN "ok"
       ELSE "failed"


\* what the login can come to, over every answer of the portal
RequestsLogins == {LoginOutcome(net, FALSE, "none") : net \in Nets}
SeleniumFallbackLogins ==
    {LoginOutcome(net, TRUE, selenium_login) : net \in Nets, selenium_login \in SeleniumLogins}
LoginOutcomes(selenium_available) ==
    IF selenium_available THEN SeleniumFallbackLogins ELSE RequestsLogins

\* ------------------------------------------------------------------ fetch
(* What session.get(target_url) gives: Raise-like, or a response of which   *)
(* the status code, whether 'login' occurs in its final url, and the parsed *)
(* page are kept.                                                           *)
PageResponse(status_code, login, page) ==
    [kind |-> "response", status_code |-> status_code, login |-> login, page |-> page]
BlankPage == Page(FALSE, FALSE, FALSE, FALSE, <<>>, FALSE, <<>>)
GetRaise == [kind |-> "raise", status_code |-> 0, login |-> FALSE, page |-> BlankPage]

FetchResponses ==
    {PageResponse(200, FALSE, page) : page \in Pages}
    \cup {PageResponse(200, TRUE, BlankPage), PageResponse(204, FALSE, BlankPage),
          PageResponse(500, FALSE, BlankPage), GetRaise}

(* What get_reference_page_with_selenium gives at line 617: "raise" when it *)
(* raises or returns the pair (None, False) of its early exits, which the   *)
(* assignment to three names cannot unpack; "none" for (None, False, []);   *)
(* "soup" for (soup, has_opportunities, opportunity_names).                 *)
SelSoup(page, has, names) == [kind |-> "soup", page |-> page, has |-> has, names |-> names]
SelRaise == [kind |-> "raise", page |-> BlankPage, has |-> FALSE, names |-> <<>>]
SelNone == [kind |-> "none", page |-> BlankPage, has |-> FALSE, names |-> <<>>]

\* monitor_selenium.py lines 575, 653-665 and 714-715: no widget in the
\* browser's DOM; 'No Data' counts only next to the words of the widget, and
\* no name is extracted
SeleniumWidgetless(page) ==
    SelSoup(page, ~(page.pageNoData /\ page.pageOppWord), <<>>)

WidgetlessPages == {BlankPage, Page(FALSE, TRUE, TRUE, FALSE, <<>>, FALSE, <<>>)}
\* pages in which the browser finds the widget: what it reports for them is
\* read off the rendered DOM, which the parsed page does not determine
SelPages ==
    {Page(TRUE, TRUE, TRUE, FALSE, NoDataText, TRUE, <<>>),
     Page(TRUE, FALSE, TRUE, FALSE, <<>>, FALSE, <<>>),
     Page(TRUE, FALSE, TRUE, FALSE, <<>>, FALSE, <<(<<HeaderRow, DataRow(<<"B">>)>>)>>)}
SelNames == {<<>>, <<(<<"A">>)>>, <<(<<"A">>), (<<"B">>)>>}
SeleniumResults ==
    {SelRaise, SelNone}
    \cup {SeleniumWidgetless(page) : page \in WidgetlessPages}
    \cup {SelSoup(page, FALSE, <<>>) : page \in SelPages}
    \cup {SelSoup(page, TRUE, names) : page \in SelPages, names \in SelNames}

\* what the stage comes to: kind "ok", "raise" (an exception reaches line
\* 795), "bad_status" (line 679) or "login" (line 693); raised tells whether a
\* session.get of the stage raised, located whether the widget was found in
\* the page the state was taken from
Fetched(kind, result, raised, widget_found) ==
    [kind |-> kind, opportunities |-> result.opportunities, has |-> result.has,
     raised |-> raised, located |-> widget_found]
Nothing == Result(<<>>, FALSE)

\* lines 692-696 after the extraction: the redirect to the login page
AfterExtraction(page_response, result, raised, widget_found) ==
    IF page_response.login THEN Fetched("login", Nothing, raised, widget_found)
    ELSE Fetched("ok", result, raised, widget_found)

\* lines 653-685: the page by requests alone; debug_ok tells whether
\* debug_page.html could be written
FetchByRequests(get1, debug_ok) ==
    IF get1.kind = "raise" THEN Fetched("raise", Nothing, TRUE, FALSE)
    ELSE IF ~debug_ok THEN Fetched("raise", Nothing, FALSE, FALSE)
    ELSE IF get1.status_code >= 400 THEN Fetched("raise", Nothing, FALSE, FALSE)
    ELSE IF get1.status_code # 200 THEN Fetched("bad_status", Nothing, FALSE, FALSE)
    ELSE AfterExtraction(get1, extract_opportunities(get1.page), FALSE, get1.page.widget)

\* lines 624-637: the state taken from the Selenium result
FromSelenium(sel) ==
    IF sel.has
    THEN IF sel.names # <<>> THEN Result(sel.names, TRUE)
         ELSE LET found == extract_opportunities(sel.page).opportunities
              IN Result(IF found = <<>> THEN <<Placeholder>> ELSE found, TRUE)
    ELSE Nothing

\* lines 647-651: the fallback of the inner except
FetchFallback(get2, raised) ==
    IF get2.kind = "raise" THEN Fetched("raise", Nothing, TRUE, FALSE)
    ELSE AfterExtraction(get2, extract_opportunities(get2.page), raised, get2.page.widget)

\* lines 613-651: the page by Selenium, falling back to requests
FetchBySelenium(sel, get1, get2) ==
    IF sel.kind = "raise" THEN FetchFallback(get2, FALSE)
    ELSE IF get1.kind = "raise" THEN FetchFallback(get2, TRUE)
    ELSE IF sel.kind = "soup"
    THEN AfterExtraction(get1, FromSelenium(sel), FALSE, sel.page.widget)
    ELSE AfterExtraction(get1, extract_opportunities(get1.page), FALSE, get1.page.widget)

\* what the fetch stage can come to, over every answer of the collaborators
RequestsOutcomes ==
    {FetchByRequests(get1, debug_ok) : get1 \in FetchResponses, debug_ok \in BOOLEAN}
SeleniumOutcomes ==
    UNION {UNION {{FetchBySelenium(sel, get1, get2) :
                      get2 \in IF sel.kind = "raise" \/ get1.kind = "raise"
                               THEN FetchResponses ELSE {get1}} :
                  get1 \in IF sel.kind = "raise" THEN {GetRaise} ELSE FetchResponses} :
           sel \in SeleniumResults}
FetchOutcomes(selenium_available) ==
    IF selenium_available THEN SeleniumOutcomes ELSE RequestsOutcomes

\* ------------------------------------------------------------------ record
\* a slip in line 714: the kind does not follow has_opportunities_now
CurrentStateAlwaysAvailable(has) == OPPORTUNITIES_AVAILABLE

\* lines 713-718
CurrentState(has) == IF has THEN OPPORTUNITIES_AVAILABLE ELSE NO_DATA
StateDetails(opportunities, has) ==
    IF has
    THEN IF opportunities # <<>> THEN Join(opportunities, COMMA)
         ELSE <<"opportunities_available">>
    ELSE <<>>

\* a slip in line 720: the digest is that of the kind alone
CurrentStateHashKindOnly(opportunities, has) == Md5Hex(<<CurrentState(has), COLON>>)

\* line 720
CurrentStateHash(opportunities, has) ==
    Md5Hex(<<CurrentState(has), COLON>> \o StateDetails(opportunities, has))

\* a slip in lines 725/787: the digest written is that of the kind alone
RecordTextStaleHash(opportunities, has) ==
    <<Md5Hex(<<CurrentState(has), COLON>>), BAR, CurrentState(has), BAR>>
        \o StateDetails(opportunities, has)

\* a slip in lines 725/787: the third field and its delimiter are left out
\* when there are no details
RecordTextTwoFields(opportunities, has) ==
    IF has
    THEN <<CurrentStateHash(opportunities, has), BAR, CurrentState(has), BAR>>
             \o StateDetails(opportunities, has)
    ELSE <<CurrentStateHash(opportunities, has), BAR, CurrentState(has)>>

\* the text of lines 725 and 787
RecordText(opportunities, has) ==
    <<CurrentStateHash(opportunities, has), BAR, CurrentState(has), BAR>>
        \o StateDetails(opportunities, has)

\* lines 740-746: the three fields of the text read, or three empty strings
ParsePrevious(previous_state) ==
    LET parts == SplitMax(previous_state, BAR, 2)
    IN IF Len(parts) = 3
       THEN [hash |-> parts[1], state |-> parts[2], details |-> parts[3]]
       ELSE [hash |-> <<>>, state |-> <<>>, details |-> <<>>]

Change(detected, change_type, message) ==
    [detected |-> detected, change_type |-> change_type, message |-> message]

\* a slip in lines 755-774: every change is labelled opportunities_updated
DetectChangeUnlabelled(current_state_hash, current_state, previous) ==
    IF <<current_state_hash>> # previous.hash
    THEN Change(TRUE, "opportunities_updated", "Opportunities Updated")
    ELSE Change(FALSE, "opportunities_updated", "")

\* a slip in lines 755-767: the two kind transitions exchanged
DetectChangeSwapped(current_state_hash, current_state, previous) ==
    IF <<current_state_hash>> # previous.hash
    THEN IF current_state = OPPORTUNITIES_AVAILABLE /\ previous.state = <<NO_DATA>>
         THEN Change(TRUE, "opportunities_removed", "Opportunities Removed")
         ELSE IF current_state = NO_DATA /\ previous.state = <<OPPORTUNITIES_AVAILABLE>>
         THEN Change(TRUE, "new_opportunities", "NEW OPPORTUNITIES DETECTED")
         ELSE Change(TRUE, "opportunities_updated", "Opportunities Updated")
    ELSE Change(FALSE, "opportunities_updated", "")

\* a slip in line 753: the kinds are compared and the digests are not
DetectChangeKindOnly(current_state_hash, current_state, previous) ==
    IF <<current_state>> # previous.state
    THEN IF current_state = OPPORTUNITIES_AVAILABLE /\ previous.state = <<NO_DATA>>
         THEN Change(TRUE, "new_opportunities", "NEW OPPORTUNITIES DETECTED")
         ELSE IF current_state = NO_DATA /\ previous.state = <<OPPORTUNITIES_AVAILABLE>>
         THEN Change(TRUE, "opportunities_removed", "Opportunities Removed")
         ELSE Change(TRUE, "opportunities_updated", "Opportunities Updated")
    ELSE Change(FALSE, "opportunities_updated", "")

\* a slip in line 753: the comparison always finds a difference
DetectChangeAlways(current_state_hash, current_state, previous) ==
    IF current_state = OPPORTUNITIES_AVAILABLE /\ previous.state = <<NO_DATA>>
    THEN Change(TRUE, "new_opportunities", "NEW OPPORTUNITIES DETECTED")
    ELSE IF current_state = NO_DATA /\ previous.state = <<OPPORTUNITIES_AVAILABLE>>
    THEN Change(TRUE, "opportunities_removed", "Opportunities Removed")
    ELSE Change(TRUE, "opportunities_updated", "Opportunities Updated")

\* lines 749-774
DetectChange(current_state_hash, current_state, previous) ==
    IF <<current_state_hash>> # previous.hash
    THEN IF current_state = OPPORTUNITIES_AVAILABLE /\ previous.state = <<NO_DATA>>
         THEN Change(TRUE, "new_opportunities", "NEW OPPORTUNITIES DETECTED")
         ELSE IF current_state = NO_DATA /\ previous.state = <<OPPORTUNITIES_AVAILABLE>>
         THEN Change(TRUE, "opportunities_removed", "Opportunities Removed")
         ELSE Change(TRUE, "opportunities_updated", "Opportunities Updated")
    ELSE Change(FALSE, "opportunities_updated", "")


\* ------------------------------------------------------------------ state
(* file                    previous_state.txt: [exists, content]            *)
(* SELENIUM_AVAILABLE      whether the import of line 24 succeeded          *)
(* Per invocation of check_for_changes:                                     *)
(* pc                      "idle", "fetch", "read", "check", "done"         *)
(* current_opportunities, has_opportunities_now, previous_state: its locals *)
(* sent                    the calls of send_email_notification it made     *)
(* ret                     "none", "True", "False", or "raised" when an     *)
(*                         exception left the function                      *)
(* History, read by the properties only:                                    *)
(* extracted               the invocation got past the extraction           *)
(* request_raised          an HTTP request of the invocation raised         *)
(* file_at_start           the file when the invocation began               *)
(* last_run                a summary of the invocation that ended last      *)
(* pred                    last_run as it was when the invocation began     *)
(* events                  the calls of send_email_notification (by change  *)
(*                         type) and the writes of previous_state.txt made  *)
(*                         by lines 711-798 of the invocation, in order     *)
(* located                 the widget was found in the page the invocation  *)
(*                         took its state from                              *)
(* A call of extract_opportunities on its own:                              *)
(* soup                    the parsed document it is given                  *)
(* extraction              what it returned, once it was called             *)
(* The older monitor of arise_monitor.py (AriseMonitor):                    *)
(* last_hash               last_hash.txt                                    *)
(* arise                   the run of AriseMonitor.check_for_changes: its   *)
(*                         position, whether login_to_portal succeeded,     *)
(*                         what get_opportunity_content returned, what was  *)
(*                         read from last_hash.txt, the results of the      *)
(*                         calls of send_pushbullet_notification, and what  *)
(*                         the run returned                                 *)
VARIABLES file, SELENIUM_AVAILABLE, pc, current_opportunities, has_opportunities_now,
          previous_state, sent, ret, extracted, request_raised, file_at_start,
          last_run, pred, events, located, soup, extraction, last_hash, arise

vars == <<file, SELENIUM_AVAILABLE, pc, current_opportunities, has_opportunities_now,
          previous_state, sent, ret, extracted, request_raised, file_at_start,
          last_run, pred, events, located, soup, extraction, last_hash, arise>>

Invocations == {"a", "b"}
\* the invocations of a scheduler that never overlaps runs (one at a time)
Sequential == {"a"}

NoFile == [exists |-> FALSE, content |-> <<>>]
FileOf(text) == [exists |-> TRUE, content |-> text]
NoPrevious == [found |-> FALSE, text |-> <<>>]
Previous(text) == [found |-> TRUE, text |-> text]

\* one call send_email_notification(message, opportunity_details, change_type);
\* details_given is FALSE for opportunity_details None; delivered is its result
Notification(message, details_given, details, change_type, delivered) ==
    [message |-> message, details_given |-> details_given, details |-> details,
     change_type |-> change_type, delivered |-> delivered]

Summary(valid, first, opportunities, has, r) ==
    [valid |-> valid, first |-> first, opportunities |-> opportunities, has |-> has,
     ret |-> r]
NoRun == Summary(FALSE, FALSE, <<>>, FALSE, "none")

\* files found on disk that no run of this model wrote: the record of
\* test_monitor.py:353, the same for the other kind, a text without
\* delimiter, an empty file
InitialFiles ==
    {FileOf(<<"old_hash", BAR, NO_DATA, BAR>>),
     FileOf(<<"old_hash", BAR, OPPORTUNITIES_AVAILABLE, BAR, "A">>),
     FileOf(<<"garbage">>),
     FileOf(<<>>)}

InitLocals ==
    /\ SELENIUM_AVAILABLE \in BOOLEAN
    /\ pc = [p \in Invocations |-> "idle"]
    /\ current_opportunities = [p \in Invocations |-> <<>>]
    /\ has_opportunities_now = [p \in Invocations |-> FALSE]
    /\ previous_state = [p \in Invocations |-> NoPrevious]
    /\ sent = [p \in Invocations |-> <<>>]
    /\ ret = [p \in Invocations |-> "none"]
    /\ extracted = [p \in Invocations |-> FALSE]
    /\ request_raised = [p \in Invocations |-> FALSE]
    /\ file_at_start = [p \in Invocations |-> NoFile]
    /\ last_run = NoRun
    /\ pred = [p \in Invocations |-> NoRun]
    /\ events = [p \in Invocations |-> <<>>]
    /\ located = [p \in Invocations |-> FALSE]

\* extract_opportunities before and after its call
NotCalled == [called |-> FALSE, opportunities |-> <<>>, has |-> FALSE]
Called(result) == [called |-> TRUE, opportunities |-> result.opportunities, has |-> result.has]
EmptyDocument == Page(FALSE, FALSE, FALSE, FALSE, <<>>, FALSE, <<>>)
\* AriseMonitor before its first run, no last_hash.txt
NoContent == [got |-> FALSE, text |-> <<>>]
Content(text) == [got |-> TRUE, text |-> text]
AriseIdle ==
    [pc |-> "idle", logged_in |-> FALSE, current_content |-> NoContent,
     previous_hash |-> NoPrevious, pushes |-> <<>>, ret |-> "none"]
InitArise == last_hash = NoFile /\ arise = AriseIdle

InitParse == soup = EmptyDocument /\ extraction = NotCalled /\ InitArise

\* a fresh deployment: no previous_state.txt
Init == file = NoFile /\ InitLocals /\ InitParse

\* a deployment that finds a previous_state.txt, possibly not its own
InitAnyFile == file \in {NoFile} \cup InitialFiles /\ InitLocals /\ InitParse

\* any document of the page model, about to be given to extract_opportunities
InitExtract ==
    file = NoFile /\ InitLocals /\ soup \in Pages /\ extraction = NotCalled /\ InitArise

\* a slip in lines 783-790: the result of send_email_notification is returned
FinishUndelivered(p, r, notes) ==
    /\ pc' = [pc EXCEPT ![p] = "done"]
    /\ ret' = [ret EXCEPT ![p] =
                  IF \E i \in 1..Len(notes) : ~notes[i].delivered THEN "False" ELSE r]
    /\ sent' = [sent EXCEPT ![p] = sent[p] \o notes]
    /\ last_run' = Summary(TRUE, extracted[p] /\ ~previous_state[p].found,
                           current_opportunities[p], has_opportunities_now[p], r)

\* the invocation ends: it returns r (or raises) after the calls notes of
\* send_email_notification
Finish(p, r, notes) ==
    /\ pc' = [pc EXCEPT ![p] = "done"]
    /\ ret' = [ret EXCEPT ![p] = r]
    /\ sent' = [sent EXCEPT ![p] = sent[p] \o notes]
    /\ last_run' = Summary(TRUE, extracted[p] /\ ~previous_state[p].found,
                           current_opportunities[p], has_opportunities_now[p], r)

\* a slip in lines 795-798: the handler resets previous_state.txt
ExceptHandlerClobber(p, delivered) ==
    /\ file' = FileOf(<<>>)
    /\ Finish(p, "False",
              <<Notification("Arise monitor error", FALSE, <<>>, "error", delivered)>>)

\* lines 795-798: the handler of the outer try
ExceptHandler(p, delivered) ==
    /\ UNCHANGED file
    /\ Finish(p, "False",
              <<Notification("Arise monitor error", FALSE, <<>>, "error", delivered)>>)

\* lines 549-601: a new invocation, up to the end of the login
Login(p) ==
    /\ pc[p] \in {"idle", "done"}
    /\ file_at_start' = [file_at_start EXCEPT ![p] = file]
    /\ pred' = [pred EXCEPT ![p] = last_run]
    /\ current_opportunities' = [current_opportunities EXCEPT ![p] = <<>>]
    /\ has_opportunities_now' = [has_opportunities_now EXCEPT ![p] = FALSE]
    /\ previous_state' = [previous_state EXCEPT ![p] = NoPrevious]
    /\ extracted' = [extracted EXCEPT ![p] = FALSE]
    /\ events' = [events EXCEPT ![p] = <<>>]
    /\ located' = [located EXCEPT ![p] = FALSE]
    /\ UNCHANGED <<file, SELENIUM_AVAILABLE, soup, extraction, last_hash, arise>>
    /\ \E credentials \in BOOLEAN, outcome \in LoginOutcomes(SELENIUM_AVAILABLE),
          delivered \in BOOLEAN :
          LET failed == Notification("authentication failed", FALSE, <<>>, "error", delivered)
              done(r, notes) ==
                  /\ pc' = [pc EXCEPT ![p] = "done"]
                  /\ ret' = [ret EXCEPT ![p] = r]
                  /\ sent' = [sent EXCEPT ![p] = notes]
                  /\ last_run' = Summary(TRUE, FALSE, <<>>, FALSE, r)
          IN /\ request_raised' =
                    [request_raised EXCEPT ![p] = credentials /\ outcome = "raise"]
             /\ IF ~credentials THEN done("False", <<>>)
                ELSE IF outcome = "raise" THEN done("raised", <<>>)
                ELSE IF outcome = "failed" THEN done("False", <<failed>>)
                ELSE /\ pc' = [pc EXCEPT ![p] = "fetch"]
                     /\ ret' = [ret EXCEPT ![p] = "none"]
                     /\ sent' = [sent EXCEPT ![p] = <<>>]
                     /\ UNCHANGED last_run

\* lines 603-701: the reference page and the extraction
Fetch(p) ==
    /\ pc[p] = "fetch"
    /\ UNCHANGED <<SELENIUM_AVAILABLE, previous_state, file_at_start, pred, events,
                   soup, extraction, last_hash, arise>>
    /\ \E fetched \in FetchOutcomes(SELENIUM_AVAILABLE), delivered \in BOOLEAN :
          LET login == Notification("redirected to login", FALSE, <<>>, "error", delivered)
          IN /\ request_raised' = [request_raised EXCEPT ![p] = fetched.raised]
             /\ located' = [located EXCEPT ![p] = fetched.kind = "ok" /\ fetched.located]
             /\ IF fetched.kind = "ok"
                THEN /\ current_opportunities' =
                            [current_opportunities EXCEPT ![p] = fetched.opportunities]
                     /\ has_opportunities_now' =
                            [has_opportunities_now EXCEPT ![p] = fetched.has]
                     /\ extracted' = [extracted EXCEPT ![p] = TRUE]
                     /\ pc' = [pc EXCEPT ![p] = "read"]
                     /\ UNCHANGED <<file, sent, ret, last_run>>
                ELSE /\ UNCHANGED <<current_opportunities, has_opportunities_now, extracted>>
                     /\ IF fetched.kind = "raise" THEN ExceptHandler(p, delivered)
                        ELSE /\ UNCHANGED file
                             /\ Finish(p, "False",
                                       IF fetched.kind = "login" THEN <<login>> ELSE <<>>)

\* lines 703-709: previous_state.txt is read
ReadPrevious(p) ==
    /\ pc[p] = "read"
    /\ previous_state' = [previous_state EXCEPT ![p] =
                             IF file.exists THEN Previous(Strip(file.content)) ELSE NoPrevious]
    /\ pc' = [pc EXCEPT ![p] = "check"]
    /\ UNCHANGED <<file, SELENIUM_AVAILABLE, current_opportunities, has_opportunities_now,
                   sent, ret, extracted, request_raised, file_at_start, last_run, pred,
                   events, located, soup, extraction, last_hash, arise>>

(* What the disk does to the save of lines 724-725 and 786-787, which is     *)
(* open('previous_state.txt', 'w') followed by one f.write:                  *)
(*   ok          the record is written                                       *)
(*   open_fails  open raises (permission error): the file is untouched       *)
(*   empty       open truncates the file, the write raises (disk full)       *)
(*   partial     as empty, after the first characters of the record, which   *)
(*               are those of its digest, reached the disk                   *)
(*   killed      the process dies between the truncation and the write       *)
DiskFailures == {"open_fails", "empty", "partial"}
DiskOutcomes == {"ok", "killed"} \cup DiskFailures

\* previous_state.txt after the save of record on a disk that does disk
Written(old, disk, record) ==
    IF disk = "ok" THEN FileOf(record)
    ELSE IF disk = "open_fails" THEN old
    ELSE IF disk = "partial" THEN FileOf(<<"md5(">>)
    ELSE FileOf(<<>>)

\* the change types of a sequence of notifications
ChangeTypes(notes) == [i \in 1..Len(notes) |-> notes[i].change_type]

\* lines 711-798: the comparison, the notification and the save, on a disk
\* that does disk
CheckOnDisk(p, disk) ==
    /\ pc[p] = "check"
    /\ UNCHANGED <<SELENIUM_AVAILABLE, current_opportunities, has_opportunities_now,
                   previous_state, extracted, request_raised, file_at_start, pred,
                   located, soup, extraction, last_hash, arise>>
    /\ \E delivered \in BOOLEAN, reported \in BOOLEAN :
          LET opportunities == current_opportunities[p]
              has == has_opportunities_now[p]
              record == RecordText(opportunities, has)
              change == DetectChange(CurrentStateHash(opportunities, has), CurrentState(has),
                                     ParsePrevious(previous_state[p].text))
              first == Notification("first run", opportunities # <<>>, opportunities,
                                    "new_opportunities", delivered)
              changed == Notification(change.message, has, IF has THEN opportunities ELSE <<>>,
                                      change.change_type, delivered)
              error == Notification("Arise monitor error", FALSE, <<>>, "error", reported)
              \* the save, after the calls before of send_email_notification and
              \* before the calls after; a save that raises ends in lines 795-798
              Save(before, after) ==
                  /\ file' = Written(file, disk, record)
                  /\ IF disk = "ok"
                     THEN /\ Finish(p, "True", before \o after)
                          /\ events' = [events EXCEPT ![p] =
                                 ChangeTypes(before) \o <<"write">> \o ChangeTypes(after)]
                     ELSE IF disk = "killed"
                     THEN /\ Finish(p, "killed", before)
                          /\ events' = [events EXCEPT ![p] =
                                 ChangeTypes(before) \o <<"write_killed">>]
                     ELSE /\ Finish(p, "False", before \o <<error>>)
                          /\ events' = [events EXCEPT ![p] =
                                 ChangeTypes(before) \o <<"write_failed", "error">>]
          IN IF ~previous_state[p].found
             THEN Save(<<>>, IF has THEN <<first>> ELSE <<>>)
             ELSE IF change.detected
             THEN Save(<<changed>>, <<>>)
             ELSE /\ UNCHANGED <<file, events>>
                  /\ Finish(p, "True", <<>>)

\* lines 711-793 on a disk that works
Check(p) == CheckOnDisk(p, "ok")

\* lines 711-798 on a disk that can fail
CheckFaulty(p) == \E disk \in DiskOutcomes : CheckOnDisk(p, disk)

Step(p) == Login(p) \/ Fetch(p) \/ ReadPrevious(p) \/ Check(p)

Next == \E p \in Sequential : Step(p)

\* runs one at a time, from a fresh deployment
Spec == Init /\ [][Next]_vars

\* runs one at a time, from whatever previous_state.txt is on disk
SpecAnyFile == InitAnyFile /\ [][Next]_vars

NextFaults ==
    \E p \in Sequential : Login(p) \/ Fetch(p) \/ ReadPrevious(p) \/ CheckFaulty(p)

\* runs one at a time, from a fresh deployment, on a disk that can fail
SpecFaults == Init /\ [][NextFaults]_vars

\* one invocation of a pair started by two schedulers: it runs once
LoginOnce(p) == pc[p] = "idle" /\ Login(p)

NextOverlap ==
    \E p \in Invocations : LoginOnce(p) \/ Fetch(p) \/ ReadPrevious(p) \/ Check(p)

\* the record left by an earlier run that extracted the empty state
InitOverlap ==
    /\ file \in {NoFile, FileOf(RecordText(<<>>, FALSE))}
    /\ InitLocals
    /\ InitParse

\* two invocations whose steps interleave freely: nothing in lines 545-798
\* takes a lock
SpecOverlap == InitOverlap /\ [][NextOverlap]_vars

\* lines 90-241: extract_opportunities(soup) is called and returns
Extract ==
    /\ ~extraction.called
    /\ extraction' = Called(extract_opportunities(soup))
    /\ UNCHANGED <<file, SELENIUM_AVAILABLE, pc, current_opportunities,
                   has_opportunities_now, previous_state, sent, ret, extracted,
                   request_raised, file_at_start, last_run, pred, events, located, soup,
                   last_hash, arise>>

NextExtract == Extract

\* extract_opportunities on every document of the page model
SpecExtract == InitExtract /\ [][NextExtract]_vars

\* ------------------------------------------------------------------ arise_monitor.py
\* what get_opportunity_content can return: None when the request raised
\* (lines 140-142), else the text found, joined with ' ' (lines 112-138)
AriseContents ==
    {NoContent, Content(NoDataText), Content(LoadingText), Content(<<"A">>),
     Content(<<"B">>), Content(<<"A", BLANK, "B">>)}

\* the variables of monitor.py
monitor_vars ==
    <<file, SELENIUM_AVAILABLE, pc, current_opportunities, has_opportunities_now,
      previous_state, sent, ret, extracted, request_raised, file_at_start, last_run,
      pred, events, located, soup, extraction>>

\* arise_monitor.py lines 227-230 and 178-182: a new process, and its login
AriseLogin ==
    /\ arise.pc \in {"idle", "done"}
    /\ \E ok \in BOOLEAN :
          arise' = IF ok THEN [AriseIdle EXCEPT !.pc = "content", !.logged_in = TRUE]
                   ELSE [AriseIdle EXCEPT !.pc = "done", !.ret = "False"]
    /\ UNCHANGED <<last_hash, monitor_vars>>

\* arise_monitor.py lines 184-188
AriseContent ==
    /\ arise.pc = "content"
    /\ \E content \in AriseContents :
          arise' = IF content.got
                   THEN [arise EXCEPT !.pc = "compare", !.current_content = content]
                   ELSE [arise EXCEPT !.pc = "done", !.ret = "False"]
    /\ UNCHANGED <<last_hash, monitor_vars>>

\* arise_monitor.py lines 206-225: what the comparison decides
AriseOutcome(current_hash, previous_hash) ==
    IF ~previous_hash.found THEN [write |-> TRUE, push |-> FALSE, ret |-> "True"]
    ELSE IF <<current_hash>> # previous_hash.text
    THEN [write |-> TRUE, push |-> TRUE, ret |-> "True"]
    ELSE [write |-> FALSE, push |-> FALSE, ret |-> "False"]

\* arise_monitor.py lines 190-225
AriseCompare ==
    /\ arise.pc = "compare"
    /\ \E delivered \in BOOLEAN :
          LET current_hash == Md5Hex(arise.current_content.text)
              previous_hash == IF last_hash.exists THEN Previous(Strip(last_hash.content))
                               ELSE NoPrevious
              outcome == AriseOutcome(current_hash, previous_hash)
          IN /\ last_hash' = IF outcome.write THEN FileOf(<<current_hash>>) ELSE last_hash
             /\ arise' = [arise EXCEPT !.pc = "done",
                                       !.previous_hash = previous_hash,
                                       !.pushes = IF outcome.push THEN <<delivered>> ELSE <<>>,
                                       !.ret = outcome.ret]
    /\ UNCHANGED monitor_vars

NextArise == AriseLogin \/ AriseContent \/ AriseCompare

\* the runs of arise_monitor.py, one at a time, from no last_hash.txt
SpecArise == Init /\ [][NextArise]_vars

TypeOK ==
    /\ file.exists \in BOOLEAN
    /\ \A p \in Invocations :
          /\ pc[p] \in {"idle", "fetch", "read", "check", "done"}
          /\ ret[p] \in {"none", "True", "False", "raised", "killed"}
          /\ has_opportunities_now[p] <=> current_opportunities[p] # <<>>

\* ------------------------------------------------------------------ properties
Ended(p) == pc[p] = "done"
\* the invocation ended after comparing its extraction with the record read
Compared(p) == Ended(p) /\ extracted[p]
\* the record the invocation read, field by field
PreviousRecord(p) == ParsePrevious(previous_state[p].text)
PreviousKind(p) == PreviousRecord(p).state
\* the digest and the kind of the state the invocation extracted
CurrentHash(p) == <<CurrentStateHash(current_opportunities[p], has_opportunities_now[p])>>
CurrentKind(p) == <<IF has_opportunities_now[p] THEN OPPORTUNITIES_AVAILABLE ELSE NO_DATA>>
\* the record on disk, field by field
SavedRecord == ParsePrevious(Strip(file.content))
\* exactly one notification, of this change type
SentOne(p, change_type) == Len(sent[p]) = 1 /\ sent[p][1].change_type = change_type

\* C1: a run that read a record of kind NO_DATA written by an earlier run and
\* extracted one or more opportunities has sent exactly one notification, of
\* type new_opportunities, whose details hold every extracted name; the record
\* on disk has kind OPPORTUNITIES_AVAILABLE and the run returned True.
C1_NoDataToOpportunities ==
    \A p \in Invocations :
        (/\ Compared(p)
         /\ previous_state[p].found
         /\ PreviousKind(p) = <<NO_DATA>>
         /\ has_opportunities_now[p]
         /\ current_opportunities[p] # <<>>)
        => /\ SentOne(p, "new_opportunities")
           /\ sent[p][1].details_given
           /\ \A i \in 1..Len(current_opportunities[p]) :
                  \E j \in 1..Len(sent[p][1].details) :
                      sent[p][1].details[j] = current_opportunities[p][i]
           /\ file.exists
           /\ SavedRecord.state = <<OPPORTUNITIES_AVAILABLE>>
           /\ ret[p] = "True"

C1_Witness ==
    \E p \in Invocations :
        /\ Compared(p)
        /\ previous_state[p].found
        /\ PreviousKind(p) = <<NO_DATA>>
        /\ current_opportunities[p] = <<(<<"A">>), (<<"B">>)>>
        /\ SentOne(p, "new_opportunities")
        /\ ret[p] = "True"

\* C2: a run that read a record of kind OPPORTUNITIES_AVAILABLE and extracted
\* the empty state has sent exactly one notification, of type
\* opportunities_removed, with no opportunity details; the record on disk has
\* kind NO_DATA and the run returned True.
C2_OpportunitiesToNoData ==
    \A p \in Invocations :
        (/\ Compared(p)
         /\ previous_state[p].found
         /\ PreviousKind(p) = <<OPPORTUNITIES_AVAILABLE>>
         /\ ~has_opportunities_now[p])
        => /\ SentOne(p, "opportunities_removed")
           /\ ~sent[p][1].details_given
           /\ sent[p][1].details = <<>>
           /\ file.exists
           /\ SavedRecord.state = <<NO_DATA>>
           /\ ret[p] = "True"

C2_Witness ==
    \E p \in Invocations :
        /\ Compared(p)
        /\ previous_state[p].found
        /\ PreviousKind(p) = <<OPPORTUNITIES_AVAILABLE>>
        /\ ~has_opportunities_now[p]
        /\ SentOne(p, "opportunities_removed")
        /\ SavedRecord.state = <<NO_DATA>>

\* C3: a first run (no previous_state.txt) that extracted the empty state has
\* sent no notification, has created a record of kind NO_DATA and returned True.
C3_FirstRunEmpty ==
    \A p \in Invocations :
        (Compared(p) /\ ~file_at_start[p].exists /\ ~has_opportunities_now[p])
        => /\ sent[p] = <<>>
           /\ file.exists
           /\ SavedRecord.state = <<NO_DATA>>
           /\ ret[p] = "True"

C3_Witness ==
    \E p \in Invocations :
        /\ Compared(p)
        /\ ~file_at_start[p].exists
        /\ ~previous_state[p].found
        /\ ~has_opportunities_now[p]
        /\ file.exists
        /\ ret[p] = "True"

\* C4: a first run that extracted opportunities has sent exactly one
\* notification, listing the extracted opportunities, and has created a record
\* of kind OPPORTUNITIES_AVAILABLE; the run that follows it immediately, when it
\* extracts the same list, sends no notification.
C4_FirstRunAvailable ==
    \A p \in Invocations :
        /\ (Compared(p) /\ ~file_at_start[p].exists /\ has_opportunities_now[p])
           => /\ Len(sent[p]) = 1
              /\ sent[p][1].details_given
              /\ sent[p][1].details = current_opportunities[p]
              /\ file.exists
              /\ SavedRecord.state = <<OPPORTUNITIES_AVAILABLE>>
        /\ (/\ Compared(p)
            /\ pred[p].valid /\ pred[p].first /\ pred[p].has /\ pred[p].ret = "True"
            /\ has_opportunities_now[p]
            /\ current_opportunities[p] = pred[p].opportunities)
           => sent[p] = <<>>

C4_Witness ==
    \E p \in Invocations :
        /\ Compared(p)
        /\ pred[p].valid /\ pred[p].first /\ pred[p].has /\ pred[p].ret = "True"
        /\ has_opportunities_now[p]
        /\ current_opportunities[p] = pred[p].opportunities
        /\ previous_state[p].found
        /\ sent[p] = <<>>

\* C5: a run that read a record of kind OPPORTUNITIES_AVAILABLE and extracted
\* opportunities whose digest differs from the stored one has sent exactly one
\* notification, of type opportunities_updated, and the record on disk is that
\* of the extracted state.
C5_AvailabilityChanged ==
    \A p \in Invocations :
        (/\ Compared(p)
         /\ previous_state[p].found
         /\ PreviousKind(p) = <<OPPORTUNITIES_AVAILABLE>>
         /\ has_opportunities_now[p]
         /\ CurrentHash(p) # PreviousRecord(p).hash)
        => /\ SentOne(p, "opportunities_updated")
           /\ file.exists
           /\ SavedRecord.hash = CurrentHash(p)
           /\ SavedRecord.state = <<OPPORTUNITIES_AVAILABLE>>
           /\ SavedRecord.details = Join(current_opportunities[p], COMMA)

\* items [A], then items [A, B]
C5_Witness ==
    \E p \in Invocations :
        /\ Compared(p)
        /\ previous_state[p].found
        /\ PreviousKind(p) = <<OPPORTUNITIES_AVAILABLE>>
        /\ PreviousRecord(p).details = <<"A">>
        /\ current_opportunities[p] = <<(<<"A">>), (<<"B">>)>>
        /\ SentOne(p, "opportunities_updated")
        /\ SavedRecord.details = <<"A", COMMA, "B">>

\* C6: a run whose kind and digest both equal those of the record it read has
\* sent no notification, has left previous_state.txt as it was and returned True.
C6_NoChange ==
    \A p \in Invocations :
        (/\ Compared(p)
         /\ previous_state[p].found
         /\ PreviousKind(p) = CurrentKind(p)
         /\ PreviousRecord(p).hash = CurrentHash(p))
        => /\ sent[p] = <<>>
           /\ file = file_at_start[p]
           /\ ret[p] = "True"

\* AVAILABLE to AVAILABLE with the same digest
C6_Witness ==
    \E p \in Invocations :
        /\ Compared(p)
        /\ previous_state[p].found
        /\ has_opportunities_now[p]
        /\ PreviousKind(p) = CurrentKind(p)
        /\ PreviousRecord(p).hash = CurrentHash(p)
        /\ sent[p] = <<>>
        /\ file = file_at_start[p]

\* C7: a run that read a record whose kind field is NO_DATA, whatever its
\* fingerprint field, and extracted the empty state has sent no notification.
C7_EmptyToEmptyIsQuiet ==
    \A p \in Invocations :
        (/\ Compared(p)
         /\ previous_state[p].found
         /\ PreviousKind(p) = <<NO_DATA>>
         /\ ~has_opportunities_now[p])
        => sent[p] = <<>>

\* C8: the kinds decide first: when the kind read and the current kind differ,
\* one notification is sent, of type new_opportunities or opportunities_removed;
\* when both are NO_DATA none is sent, whatever the stored fingerprint; the
\* fingerprint decides only when both are OPPORTUNITIES_AVAILABLE.
C8_KindDecidesFirst ==
    \A p \in Invocations :
        (/\ Compared(p)
         /\ previous_state[p].found
         /\ PreviousKind(p) \in {<<NO_DATA>>, <<OPPORTUNITIES_AVAILABLE>>})
        => /\ PreviousKind(p) # CurrentKind(p)
              => (SentOne(p, "new_opportunities") \/ SentOne(p, "opportunities_removed"))
           /\ (PreviousKind(p) = CurrentKind(p) /\ ~has_opportunities_now[p])
              => sent[p] = <<>>
           /\ (PreviousKind(p) = CurrentKind(p) /\ has_opportunities_now[p])
              => (sent[p] = <<>> <=> PreviousRecord(p).hash = CurrentHash(p))

\* C9: a run that ended before the comparison (its fetch or extract stage
\* raised, among others) has left previous_state.txt exactly as it was when the
\* run began; and a run that compares reads the file as it was when it began.
C9_FailedRunKeepsRecord ==
    \A p \in Invocations :
        /\ (Ended(p) /\ ~extracted[p]) => file = file_at_start[p]
        /\ (pc[p] = "check" /\ file_at_start[p].exists)
           => previous_state[p] = Previous(Strip(file_at_start[p].content))

\* a record was on disk, the fetch stage raised, the record is still there
C9_Witness ==
    \E p \in Invocations :
        /\ Ended(p)
        /\ ~extracted[p]
        /\ Len(sent[p]) = 1
        /\ sent[p][1].message = "Arise monitor error"
        /\ file_at_start[p].exists
        /\ file = file_at_start[p]

\* C10: a run in which an HTTP request raised, at whichever stage, has not
\* raised: it returned False and has sent exactly one notification, of type error.
C10_NetworkFailureReported ==
    \A p \in Invocations :
        (Ended(p) /\ request_raised[p])
        => /\ ret[p] = "False"
           /\ SentOne(p, "error")

\* the text the invocation read does not split into three fields at '|'
Unparseable(p) ==
    previous_state[p].found /\ Len(SplitMax(previous_state[p].text, BAR, 2)) # 3

\* C11: a run that read a previous_state.txt which does not split into three
\* '|'-separated fields (an empty file included) has not raised and has behaved
\* as a first run: it returned True, it has sent nothing when it extracted the
\* empty state and exactly the first-run notification when it extracted
\* opportunities, and the record on disk is that of the extracted state.
C11_CorruptedIsFirstRun ==
    \A p \in Invocations :
        (Compared(p) /\ Unparseable(p))
        => /\ ret[p] = "True"
           /\ ~has_opportunities_now[p] => sent[p] = <<>>
           /\ has_opportunities_now[p]
              => /\ SentOne(p, "new_opportunities")
                 /\ sent[p][1].message = "first run"
           /\ file = FileOf(RecordText(current_opportunities[p], has_opportunities_now[p]))

\* what the invocation extracted, as a record
CurrentRecord(p) == RecordText(current_opportunities[p], has_opportunities_now[p])
\* the writes of previous_state.txt the invocation attempted
WriteEvents == {"write", "write_failed", "write_killed"}
\* the change types of the notifications of a transition
TransitionTypes == {"new_opportunities", "opportunities_removed", "opportunities_updated"}
Occurs(events_of_run, kinds) ==
    \E i \in 1..Len(events_of_run) : events_of_run[i] \in kinds

\* C12: after a run whose save was cut short (the write raised, or the process
\* died during it), previous_state.txt is either what it was when the run began
\* or the complete record of the extracted state.
C12_SaveIsAtomic ==
    \A p \in Invocations :
        (Compared(p) /\ Occurs(events[p], {"write_failed", "write_killed"}))
        => file \in {file_at_start[p], FileOf(CurrentRecord(p))}

\* C13: in a run that sent the notification of a transition (that of a first
\* run with opportunities included), every call of send_email_notification for
\* it precedes every attempt to write previous_state.txt.
C13_NotifyBeforeSave ==
    \A p \in Invocations :
        Compared(p)
        => \A i \in 1..Len(events[p]), j \in 1..Len(events[p]) :
               (events[p][i] \in TransitionTypes /\ events[p][j] \in WriteEvents)
               => i < j

\* C14: a run whose write of previous_state.txt raised has not returned False
\* and has sent no notification of type error.
C14_WriteFailureAbsorbed ==
    \A p \in Invocations :
        (Compared(p) /\ Occurs(events[p], {"write_failed"}))
        => /\ ret[p] # "False"
           /\ \A i \in 1..Len(sent[p]) : sent[p][i].change_type # "error"

\* C15: every run that extracted a state has written previous_state.txt, the
\* runs that found no change included.
C15_EveryRunSaves ==
    \A p \in Invocations :
        Compared(p) => Occurs(events[p], {"write"})

\* C16: a run whose notification of a transition was not delivered
\* (send_email_notification returned False) has still written the record of
\* the extracted state and returned True.
C16_UndeliveredStillSaves ==
    \A p \in Invocations :
        (/\ Compared(p)
         /\ Len(sent[p]) >= 1
         /\ sent[p][1].change_type \in TransitionTypes
         /\ ~sent[p][1].delivered)
        => /\ file = FileOf(CurrentRecord(p))
           /\ ret[p] = "True"

\* AVAILABLE to EMPTY, the mail was refused
C16_Witness ==
    \E p \in Invocations :
        /\ Compared(p)
        /\ previous_state[p].found
        /\ PreviousKind(p) = <<OPPORTUNITIES_AVAILABLE>>
        /\ SentOne(p, "opportunities_removed")
        /\ ~sent[p][1].delivered
        /\ file = FileOf(<<Md5Hex(<<NO_DATA, COLON>>), BAR, NO_DATA, BAR>>)
        /\ ret[p] = "True"

\* C17: for a document in which no locator finds the widget,
\* extract_opportunities returns ([], False), whether or not the text of the
\* page contains 'No Data'.
C17_NoWidgetIsEmpty ==
    (extraction.called /\ ~soup.widget)
    => /\ extraction.opportunities = <<>>
       /\ ~extraction.has

\* no widget and no 'No Data' anywhere in the page
C17_Witness ==
    /\ extraction.called
    /\ ~soup.widget
    /\ ~soup.pageNoData
    /\ extraction.opportunities = <<>>
    /\ ~extraction.has

\* C18: for a document whose widget's text contains 'No Data',
\* extract_opportunities returns ([], False), also when the widget holds table
\* rows with data.
C18_SentinelIsEmpty ==
    (extraction.called /\ soup.widget /\ Contains(WidgetText(soup), "No Data"))
    => /\ extraction.opportunities = <<>>
       /\ ~extraction.has

\* 'No Data' next to a table with the data row A
C18_Witness ==
    /\ extraction.called
    /\ soup.widget
    /\ soup.text = NoDataText
    /\ soup.tables = <<(<<HeaderRow, DataRow(<<"A">>)>>)>>
    /\ extraction.opportunities = <<>>
    /\ ~extraction.has

\* C19: for a document whose widget is found and whose widget's text does not
\* contain 'No Data', extract_opportunities reports availability; a widget
\* without text and rows, and one whose text contains 'Loading', included.
C19_NoSentinelIsAvailable ==
    (extraction.called /\ soup.widget /\ ~Contains(WidgetText(soup), "No Data"))
    => extraction.has

\* no row after the first of any table has a first td cell with a name
NoUsableName(page) ==
    \A i \in 1..Len(page.tables) :
        \A r \in 2..Len(page.tables[i]) :
            LET cells == TdCells(page.tables[i][r])
            IN cells = <<>> \/ cells[1].text \in {<<>>, NoDataText}

\* C20: a result of extract_opportunities with has_opportunities False has an
\* empty list; one with has_opportunities True has a non-empty list, which is
\* exactly the one placeholder entry when no table row yields a usable name.
C20_ListMatchesFlag ==
    extraction.called
    => /\ ~extraction.has => extraction.opportunities = <<>>
       /\ extraction.has
          => /\ extraction.opportunities # <<>>
             /\ NoUsableName(soup) => extraction.opportunities = <<Placeholder>>

\* a table whose only data row has an empty first cell
C20_Witness ==
    /\ extraction.called
    /\ soup.tables = <<(<<HeaderRow, DataRow(<<>>)>>)>>
    /\ soup.text = <<>>
    /\ extraction.has
    /\ extraction.opportunities = <<Placeholder>>

\* C21: for a document whose widget holds tables of a header row only, and no
\* 'No Data', extract_opportunities returns ([], False).
C21_HeaderOnlyIsEmpty ==
    (/\ extraction.called
     /\ soup.widget
     /\ soup.tables # <<>>
     /\ \A i \in 1..Len(soup.tables) : Len(soup.tables[i]) = 1
     /\ ~NoDataFound(soup))
    => /\ extraction.opportunities = <<>>
       /\ ~extraction.has

\* the rows after the first that extract_opportunity_details takes a name
\* from and that have a third cell
NamedRows(page) ==
    {row \in UNION {{page.tables[i][r] : r \in 2..Len(page.tables[i])} :
                       i \in 1..Len(page.tables)} :
        LET cells == TdCells(row)
        IN Len(cells) >= 3 /\ cells[1].text \notin {<<>>, NoDataText}}

\* C22: when extract_opportunities reports availability, every data row with
\* a non-empty first cell and a third cell has an item that carries the text
\* of the first cell and the text of the third (the file name).
C22_ItemCarriesDetail ==
    (extraction.called /\ extraction.has)
    => \A row \in NamedRows(soup) :
           \E k \in 1..Len(extraction.opportunities) :
               LET item == extraction.opportunities[k]
                   cells == TdCells(row)
               IN /\ SubSeq(item, 1, Len(cells[1].text)) = cells[1].text
                  /\ \A j \in 1..Len(cells[3].text) : Contains(item, cells[3].text[j])

\* the run that ended last before the invocation began extracted opportunities
\* and returned True
AfterAvailableRun(p) == pred[p].valid /\ pred[p].has /\ pred[p].ret = "True"

\* t is s in another order
Reordered(s, t) ==
    /\ Len(s) = Len(t)
    /\ s # t
    /\ \E f \in Permutations(1..Len(s)) : \A i \in 1..Len(s) : t[i] = s[f[i]]

\* C23: the fingerprint written is the digest of the kind, a colon and the
\* names joined by ',' in the order extracted; a run that extracts the names of
\* the run before it in another order computes a fingerprint different from
\* the stored one and sends one opportunities_updated notification.
C23_OrderIsSignificant ==
    \A p \in Invocations :
        /\ (Compared(p) /\ has_opportunities_now[p] /\ Occurs(events[p], {"write"}))
           => SavedRecord.hash =
                  <<Md5Hex(<<"OPPORTUNITIES_AVAILABLE", ":">>
                           \o Join(current_opportunities[p], ","))>>
        /\ (/\ Compared(p)
            /\ AfterAvailableRun(p)
            /\ has_opportunities_now[p]
            /\ Reordered(pred[p].opportunities, current_opportunities[p]))
           => /\ CurrentHash(p) # PreviousRecord(p).hash
              /\ SentOne(p, "opportunities_updated")

\* the three fields of the record of what the invocation extracted
CurrentFields(p) ==
    [hash |-> CurrentHash(p),
     state |-> CurrentKind(p),
     details |-> StateDetails(current_opportunities[p], has_opportunities_now[p])]

\* C24: after a run has written its record, none of whose fields contains '|',
\* reading the file as the next run does (strip, then split('|', 2)) gives back
\* the fingerprint, the kind and the serialized items that were written.
C24_RecordRoundTrip ==
    \A p \in Invocations :
        (/\ Compared(p)
         /\ Occurs(events[p], {"write"})
         /\ ~Contains(CurrentFields(p).details, BAR))
        => /\ file.exists
           /\ ParsePrevious(Strip(file.content)) = CurrentFields(p)

\* the record of the empty state, whose third field is empty, and the record
\* of two names
C24_Witness ==
    \E p \in Invocations :
        /\ Compared(p)
        /\ Occurs(events[p], {"write"})
        /\ ~has_opportunities_now[p]
        /\ pred[p].valid /\ pred[p].opportunities = <<(<<"A">>), (<<"B">>)>>
        /\ ParsePrevious(Strip(file.content)) =
               [hash |-> <<"md5(NO_DATA:)">>, state |-> <<"NO_DATA">>, details |-> <<>>]

\* C27: a run of AriseMonitor.check_for_changes has returned False only when
\* login_to_portal failed or get_opportunity_content returned None; a run that
\* found the hash of its content equal to the stored one has returned True.
C27_AriseFailsOnlyOnFetch ==
    arise.pc = "done"
    => /\ arise.ret = "False" => (~arise.logged_in \/ ~arise.current_content.got)
       /\ (/\ arise.current_content.got
           /\ arise.previous_hash.found
           /\ arise.previous_hash.text = <<Md5Hex(arise.current_content.text)>>)
          => arise.ret = "True"

\* C26: a run that took its state from a page in which the widget was not
\* found, by the browser or by the static extraction, has state NO_DATA: it
\* reports no availability and has sent no new_opportunities notification.
C26_NoWidgetIsNoData ==
    \A p \in Invocations :
        (Compared(p) /\ ~located[p])
        => /\ ~has_opportunities_now[p]
           /\ \A i \in 1..Len(sent[p]) : sent[p][i].change_type # "new_opportunities"

\* C25: the load, classify and save steps of two overlapping invocations do
\* not interleave: never have both read previous_state.txt without either
\* having finished; and two invocations that began on the same file and
\* extracted the same state have sent one notification between them, not two.
C25_MutualExclusion ==
    \A p \in Invocations : \A q \in Invocations \ {p} :
        /\ ~(pc[p] = "check" /\ pc[q] = "check")
        /\ (/\ Compared(p) /\ Compared(q)
            /\ current_opportunities[p] = current_opportunities[q]
            /\ has_opportunities_now[p] = has_opportunities_now[q])
           => Len(sent[p]) + Len(sent[q]) <= 1

\* C28: a run has sent at most one notification, whatever happened to the
\* delivery and to the write of previous_state.txt.
C28_OneNotificationPerRun ==
    \A p \in Invocations : Len(sent[p]) <= 1

\* C29: from a fresh deployment, after any sequence of runs, when a run that
\* extracted a state has returned True, previous_state.txt holds the
\* fingerprint, the kind and the serialized items of the state it extracted.
C29_FileHoldsExtractedState ==
    \A p \in Invocations :
        (Compared(p) /\ ret[p] = "True")
        => /\ file = FileOf(CurrentRecord(p))
           /\ SavedRecord = CurrentFields(p)

\* a run that found no change and wrote nothing: the file is still its record
C29_Witness ==
    \E p \in Invocations :
        /\ Compared(p)
        /\ ret[p] = "True"
        /\ previous_state[p].found
        /\ events[p] = <<>>
        /\ current_opportunities[p] = <<(<<"B">>)>>
        /\ SavedRecord.details = <<"B">>

\* C30: a run that extracts a list of names different from that of the run
\* before it computes different serialized items and a different fingerprint,
\* and sends a notification; names that contain a comma included.
C30_EveryListChangeDetected ==
    \A p \in Invocations :
        (/\ Compared(p)
         /\ AfterAvailableRun(p)
         /\ has_opportunities_now[p]
         /\ current_opportunities[p] # pred[p].opportunities)
        => /\ CurrentFields(p).details # PreviousRecord(p).details
           /\ CurrentHash(p) # PreviousRecord(p).hash
           /\ Len(sent[p]) = 1

====
